---- MODULE Spec2Model ----
(***************************************************************************)
(* A model of mem0_mcp/server.py: six MCP tools over four HTTP             *)
(* collaborators (write API, vector index, two embedding providers) and a  *)
(* graph database reached through a lazily constructed shared driver.      *)
(*                                                                         *)
(* Strings are TLC strings (Len, \o and SubSeq act on them), so slicing,   *)
(* joining, substring search and lower-casing are computed, not assumed.   *)
(* A tool invocation is a thread of the host; it advances one collaborator *)
(* round trip (or one access to the shared driver global) per step.        *)
(***************************************************************************)
EXTENDS Integers, Sequences, FiniteSets, TLC

VARIABLES
    config,        \* the environment read once at import: embedding provider and base URL
    index,         \* the vector index: a set of points [id, vec, payload]
    graph,         \* the graph database: [nodes, edges]
    neo4j_driver,  \* the module global _neo4j_driver: 0 is None, else a driver's identity
    ndrivers,      \* how many drivers GraphDatabase.driver has constructed so far
    inv            \* per host thread: the tool invocation it is running

vars == <<config, index, graph, neo4j_driver, ndrivers, inv>>

-----------------------------------------------------------------------------
(* Bounds of the model *)

\* how many records beyond the scroll page size the bulk indexes hold
ExtraPoints == 1
\* how many edges a drawn graph holds at most
MaxEdges == 2
\* how many outcome records a write-API response lists at most
MaxOutcomes == 2

Threads == {1, 2}

-----------------------------------------------------------------------------
(* Python values and string operations *)

\* Python's None: a value outside every modelled text
None == "<None>"

\* bool(v) of a str-or-None value
Truthy(v) == v # None /\ v # ""

\* a or b
PyOr(a, b) == IF Truthy(a) THEN a ELSE b

\* d.get(k, default)
Get(d, k, default) == IF k \in DOMAIN d THEN d[k] ELSE default

\* str(v), also what an f-string field renders
Str(v) == IF v = None THEN "None" ELSE v

\* s[:n]
Take(s, n) == SubSeq(s, 1, IF Len(s) < n THEN Len(s) ELSE n)

\* sub in s
Contains(s, sub) ==
    \E i \in 1..(Len(s) - Len(sub) + 1) : SubSeq(s, i, i + Len(sub) - 1) = sub

RECURSIVE Join(_, _)
\* sep.join(parts)
Join(sep, parts) ==
    IF Len(parts) = 0 THEN ""
    ELSE IF Len(parts) = 1 THEN parts[1]
    ELSE LET half == Len(parts) \div 2
         IN Join(sep, SubSeq(parts, 1, half)) \o sep
               \o Join(sep, SubSeq(parts, half + 1, Len(parts)))

Digit(d) == SubSeq("0123456789", d + 1, d + 1)

RECURSIVE IntStr(_)
\* str(n) of a non-negative int
IntStr(n) == IF n < 10 THEN Digit(n) ELSE IntStr(n \div 10) \o Digit(n % 10)

\* f"{score:.2f}" of a non-negative score given in hundredths
Format2f(h) == IntStr(h \div 100) \o "." \o Digit((h % 100) \div 10) \o Digit(h % 10)

Uppers == "ABJ"
Lowers == "abj"

LowerChar(c) ==
    IF \E i \in 1..Len(Uppers) : SubSeq(Uppers, i, i) = c
    THEN LET i == CHOOSE i \in 1..Len(Uppers) : SubSeq(Uppers, i, i) = c
         IN SubSeq(Lowers, i, i)
    ELSE c

RECURSIVE ToLower(_)
ToLower(s) ==
    IF Len(s) = 0 THEN ""
    ELSE LowerChar(SubSeq(s, 1, 1)) \o ToLower(SubSeq(s, 2, Len(s)))

\* the sequences that list every element of the finite set S exactly once
RECURSIVE Orderings(_)
Orderings(S) ==
    IF S = {} THEN {<<>>}
    ELSE UNION {{<<x>> \o o : o \in Orderings(S \ {x})} : x \in S}

MapSeq(F(_), s) == [i \in 1..Len(s) |-> F(s[i])]

\* text.split(sep) for a one-character sep
Split(text, sep) ==
    LET at == {i \in 1..Len(text) : SubSeq(text, i, i) = sep}
        cut(k) == IF k = 0 THEN 0
                  ELSE IF k = Cardinality(at) + 1 THEN Len(text) + 1
                  ELSE CHOOSE i \in at : Cardinality({j \in at : j < i}) = k - 1
    IN [k \in 1..(Cardinality(at) + 1) |-> SubSeq(text, cut(k - 1) + 1, cut(k) - 1)]

StartsWith(s, prefix) == Len(prefix) <= Len(s) /\ SubSeq(s, 1, Len(prefix)) = prefix

EndsWith(s, suffix) ==
    Len(suffix) <= Len(s) /\ SubSeq(s, Len(s) - Len(suffix) + 1, Len(s)) = suffix

Range(s) == {s[i] : i \in 1..Len(s)}

-----------------------------------------------------------------------------
(* Configuration *)

API_BASE == "http://127.0.0.1:8765"
COLLECTION == "openmemory"
USER_ID == "justin"
OTHER_USER == "atlas"

\* EMBED_PROVIDER and EMBED_BASE_URL as the environment may set them
Configs ==
    { [provider |-> "ollama", base_url |-> ""],
      [provider |-> "openai", base_url |-> ""],
      [provider |-> "openai", base_url |-> "http://e"] }

\* embed_client is an httpx.Client only for the openai provider with a base URL
embed_client == config.provider = "openai" /\ config.base_url # ""


EMBED_MODEL == "nomic-embed-text:latest"

-----------------------------------------------------------------------------
(* HTTP round trips *)

\* how a round trip ends: a 2xx response, a non-2xx response, or no response
\* at all (connection refused, timeout), which httpx raises from the call
Outcomes == {"ok", "status", "transport"}

\* the tools without their calls of resp.raise_for_status()
RaiseForStatusSkipped(outcome) == FALSE

\* resp.raise_for_status() raises httpx.HTTPStatusError on a non-2xx response
RaiseForStatus(outcome) == outcome = "status"

\* the body of a non-2xx response: none of the fields the tools read
ErrorBody == [error |-> "failed"]

\* an empty dict
EmptyDict == <<>>

Idle ==
    [pc |-> "idle", tool |-> "", arg |-> "", log |-> <<>>, vector |-> 0,
     driver |-> 0, data |-> <<>>, result |-> ""]

\* the invocation after its request got the outcome
Sent(rec, req, outcome) ==
    [rec EXCEPT !.log = Append(@,
        [client |-> req.client, method |-> req.method, path |-> req.path,
         outcome |-> outcome])]

\* the invocation ends with an exception
Raise(rec) == [rec EXCEPT !.pc = "raised"]

\* the invocation ends with a result text
Return(rec, text) == [rec EXCEPT !.pc = "returned", !.result = text]

-----------------------------------------------------------------------------
(* Embedding providers *)

Vectors == {1, 2}

EmbedRequest(text) ==
    IF config.provider = "openai" /\ embed_client
    THEN [client |-> "embed_client", method |-> "POST", path |-> "/embeddings",
          json |-> [model |-> EMBED_MODEL, input |-> text]]
    ELSE [client |-> "ollama_client", method |-> "POST", path |-> "/api/embed",
          json |-> [model |-> EMBED_MODEL, input |-> text]]

\* what the provider behind the request answers with embedding v
EmbedResponse(req, outcome, v) ==
    IF outcome # "ok" THEN ErrorBody
    ELSE IF req.path = "/embeddings" THEN [data |-> <<[embedding |-> v]>>]
    ELSE [embeddings |-> <<v>>]

\* resp.json()["data"][0]["embedding"] or resp.json()["embeddings"][0];
\* 0 stands for the KeyError of a body without the field
EmbedVector(body) ==
    IF config.provider = "openai" /\ embed_client
    THEN IF "data" \in DOMAIN body THEN body.data[1].embedding ELSE 0
    ELSE IF "embeddings" \in DOMAIN body THEN body.embeddings[1] ELSE 0

-----------------------------------------------------------------------------
(* The vector index *)

SearchLimit == 10
ListLimit == 100

\* a condition {"key": k, "match": {"value": v}} on a payload
ConditionHolds(c, payload) == c.key \in DOMAIN payload /\ payload[c.key] = c.match.value

\* a filter holds when every must condition holds and, if should conditions
\* are given, at least one of them holds
FilterHolds(filter, payload) ==
    LET must == Get(filter, "must", <<>>)
        should == Get(filter, "should", <<>>)
    IN /\ \A i \in 1..Len(must) : ConditionHolds(must[i], payload)
       /\ \/ Len(should) = 0
          \/ \E i \in 1..Len(should) : ConditionHolds(should[i], payload)

\* the points of a set in the index's own order
NativeOrder(S) ==
    [i \in 1..Cardinality(S) |->
        CHOOSE p \in S : Cardinality({q \in S : q.n < p.n}) = i - 1]

\* similarity of a query vector and a stored vector, in hundredths
Score(q, v) == 100 - 30 * (IF q < v THEN v - q ELSE q - v)

\* POST /collections/{name}/points/search
QdrantSearch(idx, body) ==
    LET matching == {p \in idx : FilterHolds(body.filter, p.payload)}
        hit(p) == [id |-> p.id, score |-> Score(body.vector, p.vec), payload |-> p.payload, n |-> p.n]
        ranked == SortSeq(MapSeq(hit, NativeOrder(matching)),
                          LAMBDA a, b : a.score > b.score \/ (a.score = b.score /\ a.n < b.n))
    IN [result |-> MapSeq(LAMBDA h : [id |-> h.id, score |-> h.score, payload |-> h.payload],
                          Take(ranked, body.limit))]

\* POST /collections/{name}/points/scroll
QdrantScroll(idx, body) ==
    LET matching == NativeOrder({p \in idx : FilterHolds(body.filter, p.payload)})
        page == Take(matching, body.limit)
    IN [result |->
          [points |-> MapSeq(LAMBDA p : [id |-> p.id, payload |-> p.payload], page),
           next_page_offset |->
              IF Len(matching) > body.limit THEN matching[body.limit + 1].id ELSE None]]

-----------------------------------------------------------------------------
(* Helpers of the tools *)

\* the user scope written with must: both fields required
UserFilterBoth ==
    [must |-> << [key |-> "user_id", match |-> [value |-> USER_ID]],
                 [key |-> "userId", match |-> [value |-> USER_ID]] >>]

\* the user scope sent with search and scroll
UserFilter ==
    [should |-> << [key |-> "user_id", match |-> [value |-> USER_ID]],
                   [key |-> "userId", match |-> [value |-> USER_ID]] >>]

\* the three fields looked up in the opposite order
ExtractTextFirst(payload) ==
    Get(payload, "text", Get(payload, "memory", Get(payload, "data", "unknown")))

_extract_memory(payload) ==
    Get(payload, "data", Get(payload, "memory", Get(payload, "text", "unknown")))

SearchRequest(vector) ==
    [client |-> "qdrant_client", method |-> "POST",
     path |-> "/collections/" \o COLLECTION \o "/points/search",
     json |-> [vector |-> vector, limit |-> SearchLimit, with_payload |-> TRUE,
               filter |-> UserFilter]]

\* the scroll with a page of 1000
ScrollRequestWide ==
    [client |-> "qdrant_client", method |-> "POST",
     path |-> "/collections/" \o COLLECTION \o "/points/scroll",
     json |-> [limit |-> 1000, with_payload |-> TRUE, with_vector |-> FALSE,
               filter |-> UserFilter]]

ScrollRequest ==
    [client |-> "qdrant_client", method |-> "POST",
     path |-> "/collections/" \o COLLECTION \o "/points/scroll",
     json |-> [limit |-> ListLimit, with_payload |-> TRUE, with_vector |-> FALSE,
               filter |-> UserFilter]]

SearchLine(r) ==
    "- " \o Str(_extract_memory(Get(r, "payload", EmptyDict)))
         \o " (relevance: " \o Format2f(Get(r, "score", 0)) \o ")"

\* lines 123-131: the text search_memories returns for a decoded response
SearchRender(body) ==
    LET results == Get(body, "result", <<>>)
    IN IF Len(results) = 0 THEN "No matching memories found."
       ELSE Join("\n", MapSeq(SearchLine, results))

ListLine(p) ==
    LET payload == Get(p, "payload", EmptyDict)
    IN "- [" \o Take(Str(Get(p, "id", "")), 8) \o "] ("
            \o Str(Get(payload, "source_app", Get(payload, "runId", "unknown")))
            \o ") " \o Str(_extract_memory(payload))

\* lines 186-196: the text list_memories returns for a decoded response
ListRender(body) ==
    LET points == Get(Get(body, "result", EmptyDict), "points", <<>>)
    IN IF Len(points) = 0 THEN "No memories stored."
       ELSE IntStr(Len(points)) \o " memories:\n" \o Join("\n", MapSeq(ListLine, points))

-----------------------------------------------------------------------------
(* Tool invocations *)

\* the host starts a tool on an idle thread
Call(t, tool, arg, first) ==
    /\ inv[t].pc = "idle"
    /\ inv' = [inv EXCEPT ![t] = [Idle EXCEPT !.pc = first, !.tool = tool, !.arg = arg]]
    /\ UNCHANGED <<config, index, graph, neo4j_driver, ndrivers>>

\* the host takes the result or the exception; the thread is free again
Finish(t) ==
    /\ inv[t].pc \in {"returned", "raised"}
    /\ inv' = [inv EXCEPT ![t] = Idle]
    /\ UNCHANGED <<config, index, graph, neo4j_driver, ndrivers>>

\* search_memories, line 107: vector = _embed(query)
Embed(t) ==
    /\ inv[t].pc = "embed"
    /\ \E outcome \in Outcomes, v \in Vectors :
          LET req == EmbedRequest(inv[t].arg)
              sent == Sent(inv[t], req, outcome)
              body == EmbedResponse(req, outcome, v)
          IN inv' = [inv EXCEPT ![t] =
                 IF outcome = "transport" \/ RaiseForStatus(outcome) THEN Raise(sent)
                 ELSE IF EmbedVector(body) = 0 THEN Raise(sent)
                 ELSE [sent EXCEPT !.vector = EmbedVector(body), !.pc = "search"]]
    /\ UNCHANGED <<config, index, graph, neo4j_driver, ndrivers>>

\* search_memories, lines 108-131
Search(t) ==
    /\ inv[t].pc = "search"
    /\ \E outcome \in Outcomes :
          LET req == SearchRequest(inv[t].vector)
              sent == Sent(inv[t], req, outcome)
              body == IF outcome = "ok" THEN QdrantSearch(index, req.json) ELSE ErrorBody
          IN inv' = [inv EXCEPT ![t] =
                 IF outcome = "transport" \/ RaiseForStatus(outcome) THEN Raise(sent)
                 ELSE Return([sent EXCEPT !.data = Get(body, "result", <<>>)],
                             SearchRender(body))]
    /\ UNCHANGED <<config, index, graph, neo4j_driver, ndrivers>>

\* list_memories, lines 171-196
Scroll(t) ==
    /\ inv[t].pc = "scroll"
    /\ \E outcome \in Outcomes :
          LET req == ScrollRequest
              sent == Sent(inv[t], req, outcome)
              body == IF outcome = "ok" THEN QdrantScroll(index, req.json) ELSE ErrorBody
          IN inv' = [inv EXCEPT ![t] =
                 IF outcome = "transport" \/ RaiseForStatus(outcome) THEN Raise(sent)
                 ELSE Return([sent EXCEPT !.data =
                                 Get(Get(body, "result", EmptyDict), "points", <<>>)],
                             ListRender(body))]
    /\ UNCHANGED <<config, index, graph, neo4j_driver, ndrivers>>

-----------------------------------------------------------------------------
(* Vector indexes the read tools are checked on *)

PointId(i) == IntStr(100 + i) \o "e4567-e89b-12d3"

Queries == {"ab", "J"}

TextKeys == {"data", "memory", "text"}

TextValues == [data |-> <<"d1", None>>, memory |-> <<"m1", "">>, text |-> <<"t1", "d1">>]

\* every presence pattern of data, memory and text, over two values each
TextShapes ==
    { [k \in S |-> TextValues[k][c[k]]] : S \in SUBSET TextKeys, c \in [TextKeys -> {1, 2}] }

UserKeys == {"user_id", "userId"}

\* every presence pattern of user_id and userId, over this user and another
UserShapes ==
    { [k \in S |-> c[k]] : S \in SUBSET UserKeys, c \in [UserKeys -> {USER_ID, OTHER_USER}] }

SourceShapes ==
    { [k \in S |-> IF k = "source_app" THEN "arc" ELSE "run-7"] :
        S \in SUBSET {"source_app", "runId"} }

\* one record of this user per text shape and provenance shape
TextIndexes ==
    { {[n |-> 1, id |-> PointId(1), vec |-> 1, payload |-> s @@ [user_id |-> USER_ID]]} :
        s \in TextShapes }
    \cup
    { {[n |-> 1, id |-> PointId(1), vec |-> 2,
        payload |-> s @@ [userId |-> USER_ID, text |-> "t1"]]} : s \in SourceShapes }

UserPoint(i, u) ==
    [n |-> i, id |-> PointId(i), vec |-> 1 + (i % 2), payload |-> u @@ [data |-> "d" \o IntStr(i)]]

\* up to two records, each of any user shape
UserIndexes ==
    { {UserPoint(1, u)} : u \in UserShapes }
    \cup { {UserPoint(1, u), UserPoint(2, w)} : u \in UserShapes, w \in UserShapes }
    \cup { {} }

BulkPoint(i) ==
    [n |-> i, id |-> PointId(i), vec |-> 1 + (i % 2),
     payload |-> IF i % 2 = 0 THEN [user_id |-> USER_ID, data |-> "even"]
                 ELSE IF i % 50 = 7 THEN [user_id |-> OTHER_USER, data |-> "theirs"]
                 ELSE [userId |-> USER_ID, memory |-> "odd"]]

\* indexes around the page size of scroll: all but two of the k records are this user's
BulkIndexes ==
    { {BulkPoint(i) : i \in 1..k} : k \in ListLimit..(ListLimit + 3 + ExtraPoints) }

VectorIndexes == TextIndexes \cup UserIndexes \cup BulkIndexes

EmptyGraph == [nodes |-> {}, edges |-> {}]

InitVector ==
    /\ config \in Configs
    /\ index \in VectorIndexes
    /\ graph = EmptyGraph
    /\ neo4j_driver = 0
    /\ ndrivers = 0
    /\ inv = [t \in Threads |-> Idle]

NextVector ==
    \E t \in {1} :
        \/ \E q \in Queries : Call(t, "search_memories", q, "embed")
        \/ Embed(t)
        \/ Search(t)
        \/ Call(t, "list_memories", "", "scroll")
        \/ Scroll(t)
        \/ Finish(t)

SpecVector == InitVector /\ [][NextVector]_vars


-----------------------------------------------------------------------------
(* JSON values of the write API: tagged, objects keep their key order *)

JNull == [t |-> "null"]
JStr(s) == [t |-> "str", v |-> s]
JList(items) == [t |-> "list", v |-> items]
JObj(pairs) == [t |-> "obj", v |-> pairs]

\* dict.get(k, default) on a decoded object
JGet(obj, k, default) ==
    IF \E i \in 1..Len(obj.v) : obj.v[i][1] = k
    THEN obj.v[CHOOSE i \in 1..Len(obj.v) : obj.v[i][1] = k][2]
    ELSE default

RECURSIVE JsonDumps(_)
\* json.dumps(value) with its default separators
JsonDumps(j) ==
    IF j.t = "null" THEN "null"
    ELSE IF j.t = "str" THEN "\"" \o j.v \o "\""
    ELSE IF j.t = "list" THEN "[" \o Join(", ", [i \in 1..Len(j.v) |-> JsonDumps(j.v[i])]) \o "]"
    ELSE "{" \o Join(", ", [i \in 1..Len(j.v) |->
                              "\"" \o j.v[i][1] \o "\": " \o JsonDumps(j.v[i][2])]) \o "}"

-----------------------------------------------------------------------------
(* add_memory *)

TruncateAt == 500

\* add_memory writing the point itself
AddRequestDirect(text) ==
    [client |-> "qdrant_client", method |-> "PUT",
     path |-> "/collections/" \o COLLECTION \o "/points",
     json |-> [text |-> text, user_id |-> USER_ID]]

AddRequest(text) ==
    [client |-> "api_client", method |-> "POST", path |-> "/api/v1/memories/",
     json |-> [text |-> text, user_id |-> USER_ID]]

\* the filter written as: r.get("event") in ("ADD", "UPDATE")
EventStoredGiven(r) == JGet(r, "event", JNull) \in {JStr("ADD"), JStr("UPDATE")}

\* r.get("event") in ("ADD", "UPDATE", None)
EventStored(r) == JGet(r, "event", JNull) \in {JStr("ADD"), JStr("UPDATE"), JNull}

\* r.get("memory", r.get("text", ""))
OutcomeText(r) == JGet(r, "memory", JGet(r, "text", JStr(""))).v

\* lines 151-162: the text add_memory returns for the decoded response
AddRender(data) ==
    IF data = JNull
    THEN "Memory submitted successfully (stored via " \o API_BASE \o ")"
    ELSE LET results == JGet(data, "results", JGet(data, "items", JList(<<>>))).v
             stored == MapSeq(OutcomeText, SelectSeq(results, EventStored))
             raw == "Memory processed. Response: " \o Take(JsonDumps(data), TruncateAt)
         IN IF Len(results) > 0
            THEN IF Len(stored) > 0
                 THEN "Stored " \o IntStr(Len(stored)) \o " memory/memories: "
                         \o Join("; ", stored)
                 ELSE raw
            ELSE raw

\* add_memory, lines 145-162
Post(t, bodies) ==
    /\ inv[t].pc = "post"
    /\ \E outcome \in Outcomes, answer \in bodies :
          LET req == AddRequest(inv[t].arg)
              sent == Sent(inv[t], req, outcome)
              data == IF outcome = "ok" THEN answer ELSE JObj(<< <<"error", JStr("failed")>> >>)
          IN inv' = [inv EXCEPT ![t] =
                 IF outcome = "transport" \/ RaiseForStatus(outcome) THEN Raise(sent)
                 ELSE Return([sent EXCEPT !.data = data], AddRender(data))]
    /\ UNCHANGED <<config, index, graph, neo4j_driver, ndrivers>>

-----------------------------------------------------------------------------
(* Responses of the write API that add_memory is checked on *)

RECURSIVE Rep(_, _)
\* s * n
Rep(s, n) ==
    IF n = 0 THEN ""
    ELSE IF n % 2 = 1 THEN s \o Rep(s, n - 1)
    ELSE LET h == Rep(s, n \div 2) IN h \o h

EventPairs ==
    { <<>>, << <<"event", JNull>> >>, << <<"event", JStr("ADD")>> >>,
      << <<"event", JStr("UPDATE")>> >>, << <<"event", JStr("DELETE")>> >> }

StoredPairs ==
    { <<>>, << <<"memory", JStr("likes tea")>> >>, << <<"text", JStr("uses vim")>> >> }

OutcomeRecords == { JObj(e \o m) : e \in EventPairs, m \in StoredPairs }

OutcomeLists == UNION { [1..n -> OutcomeRecords] : n \in 0..MaxOutcomes }

\* an outcome that is not stored, long enough for the raw response to pass
\* the truncation length by k - 452 characters
LongOutcome(k) ==
    JObj(<< <<"event", JStr("DELETE")>>, <<"memory", JStr(Rep("x", k))>> >>)

AddBodies ==
    {JNull, JObj(<<>>)}
    \cup { JObj(<< <<"results", JList(l)>> >>) : l \in OutcomeLists }
    \cup { JObj(<< <<"items", JList(l)>> >>) : l \in OutcomeLists }
    \cup { JObj(<< <<"results", JList(l)>>, <<"items", JList(<<JObj(<< <<"text", JStr("uses vim")>> >>)>>)>> >>) :
             l \in {<<>>, <<JObj(<< <<"event", JStr("ADD")>>, <<"memory", JStr("likes tea")>> >>)>>} }
    \cup { JObj(<< <<"results", JList(<<LongOutcome(k)>>)>> >>) : k \in 450..454 }

Texts == {"likes tea", "uses vim"}

InitAdd ==
    /\ config \in Configs
    /\ index = {}
    /\ graph = EmptyGraph
    /\ neo4j_driver = 0
    /\ ndrivers = 0
    /\ inv = [t \in Threads |-> Idle]

NextAdd ==
    \E t \in {1} :
        \/ \E text \in Texts : Call(t, "add_memory", text, "post")
        \/ Post(t, AddBodies)
        \/ Finish(t)

SpecAdd == InitAdd /\ [][NextAdd]_vars

-----------------------------------------------------------------------------
(* The graph database: nodes [nid, props], edges [eid, src, dst, type, props] *)

RowLimit == 25

\* a property of a node or relationship; a missing property reads as null
Prop(x, k) == Get(x.props, k, None)

\* toLower(v): null for null
CyLower(v) == IF v = None THEN None ELSE ToLower(v)

\* a CONTAINS b and a = b are null when an operand is null; "T", "F", "N"
CyContains(a, b) == IF a = None \/ b = None THEN "N" ELSE IF Contains(a, b) THEN "T" ELSE "F"
CyEquals(a, b) == IF a = None \/ b = None THEN "N" ELSE IF a = b THEN "T" ELSE "F"

\* a OR b in three-valued logic
CyOr(a, b) == IF a = "T" \/ b = "T" THEN "T" ELSE IF a = "N" \/ b = "N" THEN "N" ELSE "F"

NodeOf(g, nid) == CHOOSE n \in g.nodes : n.nid = nid

OutEdges(g, n) == {e \in g.edges : e.src = n.nid}
InEdges(g, n) == {e \in g.edges : e.dst = n.nid}

SearchGraphQuery ==
    "MATCH (n) WHERE toLower(n.name) CONTAINS toLower($search_term) "
    \o "OR toLower(n.id) CONTAINS toLower($search_term) "
    \o "OPTIONAL MATCH (n)-[r]->(m) "
    \o "RETURN n.name AS source, n.id AS source_id, type(r) AS relation, "
    \o "r.relationship AS rel_detail, m.name AS target, m.id AS target_id LIMIT 25"

GetEntityQuery ==
    "MATCH (n) WHERE toLower(n.name) = toLower($entity_name) "
    \o "OR toLower(n.id) = toLower($entity_name) "
    \o "OPTIONAL MATCH (n)-[r_out]->(target) OPTIONAL MATCH (source)-[r_in]->(n) "
    \o "RETURN n.name AS entity, "
    \o "collect(DISTINCT {rel: type(r_out), detail: r_out.relationship, target: target.name}) AS outgoing, "
    \o "collect(DISTINCT {rel: type(r_in), detail: r_in.relationship, source: source.name}) AS incoming"

\* lines 241-248 evaluated: the nodes the WHERE clause of search_graph keeps
SearchMatches(g, term) ==
    {n \in g.nodes :
        CyOr(CyContains(CyLower(Prop(n, "name")), CyLower(term)),
             CyContains(CyLower(Prop(n, "id")), CyLower(term))) = "T"}

\* one row per matched node and outgoing relationship, one row with nulls
\* for a matched node without any
SearchRow(g, n, e) ==
    IF e = 0
    THEN [source |-> Prop(n, "name"), source_id |-> Prop(n, "id"), relation |-> None,
          rel_detail |-> None, target |-> None, target_id |-> None]
    ELSE LET r == CHOOSE r \in g.edges : r.eid = e
         IN [source |-> Prop(n, "name"), source_id |-> Prop(n, "id"), relation |-> r.type,
             rel_detail |-> Prop(r, "relationship"),
             target |-> Prop(NodeOf(g, r.dst), "name"),
             target_id |-> Prop(NodeOf(g, r.dst), "id")]

\* the lists of rows the query of search_graph may return: the rows in any
\* order, cut at the LIMIT
SearchRows(g, term) ==
    LET pairs == UNION {IF OutEdges(g, n) = {} THEN {<<n.nid, 0>>}
                        ELSE {<<n.nid, e.eid>> : e \in OutEdges(g, n)} :
                        n \in SearchMatches(g, term)}
    IN {Take([i \in 1..Len(o) |-> SearchRow(g, NodeOf(g, o[i][1]), o[i][2])], RowLimit) :
           o \in Orderings(pairs)}

\* lines 289-296 evaluated: the nodes the WHERE clause of get_entity keeps
EntityMatches(g, name) ==
    {n \in g.nodes :
        CyOr(CyEquals(CyLower(Prop(n, "name")), CyLower(name)),
             CyEquals(CyLower(Prop(n, "id")), CyLower(name))) = "T"}

NoRel == [rel |-> None, detail |-> None, other |-> None]

\* the distinct maps collected over the rows of the matched nodes named entity
CollectOut(g, group) ==
    UNION {IF OutEdges(g, n) = {} THEN {NoRel}
           ELSE {[rel |-> e.type, detail |-> Prop(e, "relationship"),
                  other |-> Prop(NodeOf(g, e.dst), "name")] : e \in OutEdges(g, n)} :
           n \in group}

CollectIn(g, group) ==
    UNION {IF InEdges(g, n) = {} THEN {NoRel}
           ELSE {[rel |-> e.type, detail |-> Prop(e, "relationship"),
                  other |-> Prop(NodeOf(g, e.src), "name")] : e \in InEdges(g, n)} :
           n \in group}

\* the records the query of get_entity may return: one per value of n.name
\* among the matched nodes (null is a value), in any order, each with its
\* collected maps in any order. Only the first record is ever read (line
\* 305), so the others are listed in one arbitrary order.
EntityRecords(g, name) ==
    LET matched == EntityMatches(g, name)
        entities == {Prop(n, "name") : n \in matched}
        group(x) == {n \in matched : Prop(n, "name") = x}
        canon(x) == [entity |-> x,
                     outgoing |-> CHOOSE o \in Orderings(CollectOut(g, group(x))) : TRUE,
                     incoming |-> CHOOSE o \in Orderings(CollectIn(g, group(x))) : TRUE]
        rest(x) == CHOOSE o \in Orderings({canon(y) : y \in entities \ {x}}) : TRUE
    IN IF matched = {} THEN {<<>>}
       ELSE UNION {{<<[entity |-> x, outgoing |-> out, incoming |-> inc]>> \o rest(x) :
                       out \in Orderings(CollectOut(g, group(x))),
                       inc \in Orderings(CollectIn(g, group(x)))} :
                   x \in entities}

-----------------------------------------------------------------------------
(* search_graph and get_entity *)

SearchGraphRequest(query) ==
    [client |-> "neo4j", method |-> "run", path |-> SearchGraphQuery,
     json |-> [search_term |-> query]]

GetEntityRequest(name) ==
    [client |-> "neo4j", method |-> "run", path |-> GetEntityQuery,
     json |-> [entity_name |-> name]]

GraphLine(source, rel, target) == "- " \o source \o " --[" \o rel \o "]--> " \o target

LoneLine(source) == "- " \o source \o " (no relationships)"

RECURSIVE GraphLinesAll(_, _, _)
\* the loop without its look-ups in seen
GraphLinesAll(records, seen, lines) ==
    IF Len(records) = 0 THEN lines
    ELSE LET rec == records[1]
             source == PyOr(PyOr(rec.source, rec.source_id), "?")
         IN IF Truthy(rec.relation)
            THEN GraphLinesAll(Tail(records), seen,
                    Append(lines, GraphLine(source, PyOr(rec.rel_detail, rec.relation),
                                            PyOr(PyOr(rec.target, rec.target_id), "?"))))
            ELSE GraphLinesAll(Tail(records), seen, Append(lines, LoneLine(source)))

RECURSIVE GraphLines(_, _, _)
\* lines 257-271: the loop over the records, from record i on
GraphLines(records, seen, lines) ==
    IF Len(records) = 0 THEN lines
    ELSE LET rec == records[1]
             source == PyOr(PyOr(rec.source, rec.source_id), "?")
         IN IF Truthy(rec.relation)
            THEN LET rel == PyOr(rec.rel_detail, rec.relation)
                     target == PyOr(PyOr(rec.target, rec.target_id), "?")
                     key == <<source, rel, target>>
                 IN IF key \notin seen
                    THEN GraphLines(Tail(records), seen \cup {key},
                                    Append(lines, GraphLine(source, rel, target)))
                    ELSE GraphLines(Tail(records), seen, lines)
            ELSE IF <<source>> \notin seen
                 THEN GraphLines(Tail(records), seen \cup {<<source>>},
                                 Append(lines, LoneLine(source)))
                 ELSE GraphLines(Tail(records), seen, lines)

\* lines 254-273: the text search_graph returns for the records
SearchGraphRender(query, records) ==
    IF Len(records) = 0 THEN "No graph entities found matching '" \o query \o "'."
    ELSE LET lines == GraphLines(records, {}, <<>>)
         IN IntStr(Len(lines)) \o " graph results:\n" \o Join("\n", lines)

RelLine(arrow, r) ==
    arrow \o PyOr(r.detail, r.rel) \o "] " \o PyOr(r.other, "?")

\* lines 302-325: the text get_entity returns for the records
GetEntityRender(name, records) ==
    IF Len(records) = 0 \/ ~Truthy(records[1].entity)
    THEN "Entity '" \o name \o "' not found in graph."
    ELSE LET rec == records[1]
             outgoing == SelectSeq(rec.outgoing, LAMBDA r : Truthy(r.rel))
             incoming == SelectSeq(rec.incoming, LAMBDA r : Truthy(r.rel))
             lines ==
                <<"Entity: " \o rec.entity>>
                \o (IF Len(outgoing) > 0
                    THEN <<"\nOutgoing:">> \o MapSeq(LAMBDA r : RelLine("  --> [", r), outgoing)
                    ELSE <<>>)
                \o (IF Len(incoming) > 0
                    THEN <<"\nIncoming:">> \o MapSeq(LAMBDA r : RelLine("  <-- [", r), incoming)
                    ELSE <<>>)
                \o (IF Len(outgoing) = 0 /\ Len(incoming) = 0
                    THEN <<"  (no relationships)">> ELSE <<>>)
         IN Join("\n", lines)

\* _get_neo4j, line 61: if _neo4j_driver is None
Neo4jCheck(t) ==
    /\ inv[t].pc = "neo4j_check"
    /\ inv' = [inv EXCEPT ![t].pc = IF neo4j_driver = 0 THEN "neo4j_init" ELSE "neo4j_return"]
    /\ UNCHANGED <<config, index, graph, neo4j_driver, ndrivers>>

\* _get_neo4j, lines 62-64: _neo4j_driver = GraphDatabase.driver(...)
Neo4jInit(t) ==
    /\ inv[t].pc = "neo4j_init"
    /\ ndrivers' = ndrivers + 1
    /\ neo4j_driver' = ndrivers + 1
    /\ inv' = [inv EXCEPT ![t].pc = "neo4j_return"]
    /\ UNCHANGED <<config, index, graph>>

\* _get_neo4j, line 65, and the assignment driver = _get_neo4j()
Neo4jReturn(t) ==
    /\ inv[t].pc = "neo4j_return"
    /\ inv' = [inv EXCEPT ![t].driver = neo4j_driver,
                          ![t].pc = IF inv[t].tool = "search_graph" THEN "run_search"
                                    ELSE "run_entity"]
    /\ UNCHANGED <<config, index, graph, neo4j_driver, ndrivers>>

\* search_graph, lines 238-273
RunSearchGraph(t) ==
    /\ inv[t].pc = "run_search"
    /\ \E outcome \in {"ok", "transport"} :
          LET req == SearchGraphRequest(inv[t].arg)
              sent == Sent(inv[t], req, outcome)
          IN IF outcome # "ok" THEN inv' = [inv EXCEPT ![t] = Raise(sent)]
             ELSE \E records \in SearchRows(graph, inv[t].arg) :
                     inv' = [inv EXCEPT ![t] =
                                Return([sent EXCEPT !.data = records],
                                       SearchGraphRender(inv[t].arg, records))]
    /\ UNCHANGED <<config, index, graph, neo4j_driver, ndrivers>>

\* get_entity, lines 286-325
RunGetEntity(t) ==
    /\ inv[t].pc = "run_entity"
    /\ \E outcome \in {"ok", "transport"} :
          LET req == GetEntityRequest(inv[t].arg)
              sent == Sent(inv[t], req, outcome)
          IN IF outcome # "ok" THEN inv' = [inv EXCEPT ![t] = Raise(sent)]
             ELSE \E records \in EntityRecords(graph, inv[t].arg) :
                     inv' = [inv EXCEPT ![t] =
                                Return([sent EXCEPT !.data = records],
                                       GetEntityRender(inv[t].arg, records))]
    /\ UNCHANGED <<config, index, graph, neo4j_driver, ndrivers>>

-----------------------------------------------------------------------------
(* Graphs the graph tools are checked on *)

CandidateNodes ==
    { [nid |-> 1, props |-> [name |-> "Ab"]],
      [nid |-> 2, props |-> [name |-> "ab", id |-> "J"]],
      [nid |-> 3, props |-> [id |-> "ab"]],
      [nid |-> 4, props |-> [name |-> "B"]] }

RelProps == { <<>>, [relationship |-> "likes"], [relationship |-> ""] }

\* every graph of one or two of the nodes with up to MaxEdges relationships
\* between them, parallel ones included
Graphs ==
    { [nodes |-> {}, edges |-> {}] }
    \cup { [nodes |-> {n}, edges |-> {}] : n \in CandidateNodes }
    \cup UNION { UNION { { [nodes |-> {ab[1], ab[2]},
                            edges |-> { [eid |-> i,
                                         src |-> IF d[i] = 1 THEN ab[1].nid ELSE ab[2].nid,
                                         dst |-> IF d[i] = 1 THEN ab[2].nid ELSE ab[1].nid,
                                         type |-> "KNOWS", props |-> p[i]] : i \in 1..k }] :
                            d \in [1..k -> {1, 2}], p \in [1..k -> RelProps] } :
                          k \in 0..MaxEdges } :
                 ab \in {x \in CandidateNodes \X CandidateNodes : x[1].nid < x[2].nid} }

Names == {"AB", "j", "b"}

InitGraph ==
    /\ config \in {CHOOSE c \in Configs : TRUE}
    /\ index = {}
    /\ graph \in Graphs
    /\ neo4j_driver = 0
    /\ ndrivers = 0
    /\ inv = [t \in Threads |-> Idle]

NextGraph ==
    \E t \in {1} :
        \/ \E q \in Names : Call(t, "search_graph", q, "neo4j_check")
        \/ \E q \in Names : Call(t, "get_entity", q, "neo4j_check")
        \/ Neo4jCheck(t)
        \/ Neo4jInit(t)
        \/ Neo4jReturn(t)
        \/ RunSearchGraph(t)
        \/ RunGetEntity(t)
        \/ Finish(t)

SpecGraph == InitGraph /\ [][NextGraph]_vars

-----------------------------------------------------------------------------
(* delete_memory *)

ApiDeleteRequest(memory_id) ==
    [client |-> "api_client", method |-> "DELETE",
     path |-> "/api/v1/memories/" \o memory_id \o "/"]

PointsDeleteRequest(memory_id) ==
    [client |-> "qdrant_client", method |-> "POST",
     path |-> "/collections/" \o COLLECTION \o "/points/delete",
     json |-> [points |-> <<memory_id>>]]

\* the handler written as: except Exception
ExceptCatchesAny(exception) == TRUE

\* line 211: except httpx.HTTPStatusError
ExceptCatches(exception) == exception = "HTTPStatusError"

\* delete_memory, lines 207-212: the delete through the write API
ApiDelete(t) ==
    /\ inv[t].pc = "api_delete"
    /\ \E outcome \in Outcomes :
          LET req == ApiDeleteRequest(inv[t].arg)
              sent == Sent(inv[t], req, outcome)
              exception == IF outcome = "transport" THEN "TransportError"
                           ELSE IF RaiseForStatus(outcome) THEN "HTTPStatusError"
                           ELSE "none"
          IN inv' = [inv EXCEPT ![t] =
                 IF exception = "none" THEN Return(sent, "Deleted memory " \o inv[t].arg)
                 ELSE IF ExceptCatches(exception) THEN [sent EXCEPT !.pc = "points_delete"]
                 ELSE Raise(sent)]
    /\ UNCHANGED <<config, index, graph, neo4j_driver, ndrivers>>

\* delete_memory, lines 214-219: the point delete in the vector index
PointsDelete(t) ==
    /\ inv[t].pc = "points_delete"
    /\ \E outcome \in Outcomes :
          LET req == PointsDeleteRequest(inv[t].arg)
              sent == Sent(inv[t], req, outcome)
          IN /\ inv' = [inv EXCEPT ![t] =
                    IF outcome = "transport" \/ RaiseForStatus(outcome) THEN Raise(sent)
                    ELSE Return(sent, "Deleted memory " \o inv[t].arg
                                         \o " (from Qdrant directly)")]
             /\ index' = IF outcome = "ok"
                         THEN {p \in index : p.id \notin Range(req.json.points)}
                         ELSE index
    /\ UNCHANGED <<config, graph, neo4j_driver, ndrivers>>

-----------------------------------------------------------------------------
(* The server: every tool, on every thread of the host *)

StartIndex ==
    { [n |-> 1, id |-> PointId(1), vec |-> 1,
       payload |-> [user_id |-> USER_ID, data |-> "likes tea", source_app |-> "arc"]],
      [n |-> 2, id |-> PointId(2), vec |-> 2,
       payload |-> [userId |-> USER_ID, memory |-> "uses vim"]] }

StartGraph ==
    [nodes |-> { [nid |-> 1, props |-> [name |-> "Ab"]], [nid |-> 3, props |-> [id |-> "ab"]] },
     edges |-> { [eid |-> 1, src |-> 1, dst |-> 3, type |-> "KNOWS", props |-> <<>>] }]

StartBodies ==
    { JNull,
      JObj(<< <<"results", JList(<<JObj(<< <<"event", JStr("ADD")>>,
                                            <<"memory", JStr("likes tea")>> >>)>>)>> >>) }

MemoryIds == {PointId(1), PointId(7)}

Init ==
    /\ config \in Configs
    /\ index = StartIndex
    /\ graph = StartGraph
    /\ neo4j_driver = 0
    /\ ndrivers = 0
    /\ inv = [t \in Threads |-> Idle]

Next ==
    \E t \in Threads :
        \/ Call(t, "search_memories", "ab", "embed")
        \/ Embed(t)
        \/ Search(t)
        \/ Call(t, "add_memory", "likes tea", "post")
        \/ Post(t, StartBodies)
        \/ Call(t, "list_memories", "", "scroll")
        \/ Scroll(t)
        \/ \E id \in MemoryIds : Call(t, "delete_memory", id, "api_delete")
        \/ ApiDelete(t)
        \/ PointsDelete(t)
        \/ Call(t, "search_graph", "ab", "neo4j_check")
        \/ Call(t, "get_entity", "AB", "neo4j_check")
        \/ Neo4jCheck(t)
        \/ Neo4jInit(t)
        \/ Neo4jReturn(t)
        \/ RunSearchGraph(t)
        \/ RunGetEntity(t)
        \/ Finish(t)

Spec == Init /\ [][Next]_vars

-----------------------------------------------------------------------------
(* Properties of the read tools, checked under SpecVector *)

Min(a, b) == IF a < b THEN a ELSE b

ReturnedBy(t, tool) == inv[t].pc = "returned" /\ inv[t].tool = tool

\* the value of the first field present in the order data, memory, text
FirstPresent(payload) ==
    LET order == <<"data", "memory", "text">>
        present == {i \in 1..3 : order[i] \in DOMAIN payload}
    IN IF present = {} THEN "unknown"
       ELSE payload[order[CHOOSE i \in present : \A j \in present : i <= j]]

\* C3: every line list_memories or search_memories renders shows, for its
\* record, the value of the first of data, memory, text that the payload
\* holds, and the literal "unknown" when it holds none of them.
C3_ExtractPriority ==
    \A t \in Threads :
        /\ ReturnedBy(t, "list_memories") /\ Len(inv[t].data) > 0 =>
              LET lines == Tail(Split(inv[t].result, "\n"))
              IN /\ Len(lines) = Len(inv[t].data)
                 /\ \A i \in 1..Len(lines) :
                       EndsWith(lines[i], ") " \o Str(FirstPresent(inv[t].data[i].payload)))
        /\ ReturnedBy(t, "search_memories") /\ Len(inv[t].data) > 0 =>
              LET lines == Split(inv[t].result, "\n")
              IN /\ Len(lines) = Len(inv[t].data)
                 /\ \A i \in 1..Len(lines) :
                       StartsWith(lines[i],
                           "- " \o Str(FirstPresent(inv[t].data[i].payload)) \o " (relevance: ")

\* a record without data whose memory field wins over its text field
C3_Witness ==
    \E t \in Threads :
        /\ ReturnedBy(t, "list_memories")
        /\ Len(inv[t].data) = 1
        /\ DOMAIN inv[t].data[1].payload = {"memory", "text", "user_id"}
        /\ EndsWith(inv[t].result, ") m1")

\* this user's records: user_id or userId is the configured user id
Mine(idx) ==
    {p \in idx : \/ Get(p.payload, "user_id", None) = USER_ID
                 \/ Get(p.payload, "userId", None) = USER_ID}

RenderedIds(t) == {inv[t].data[i].id : i \in 1..Len(inv[t].data)}

LimitOf(tool) == IF tool = "list_memories" THEN ListLimit ELSE SearchLimit

\* C4: the records search_memories and list_memories render are records whose
\* user_id or userId is the configured user id, one line each; and whenever
\* no more such records exist than the request's limit, every one of them is
\* rendered, whichever of the two fields carries the user id.
C4_UserScope ==
    \A t \in Threads :
        inv[t].pc = "returned" /\ inv[t].tool \in {"list_memories", "search_memories"} =>
            /\ RenderedIds(t) \subseteq {p.id : p \in Mine(index)}
            /\ Cardinality(RenderedIds(t)) = Len(inv[t].data)
            /\ Len(inv[t].data) > 0 =>
                  Len(Split(inv[t].result, "\n")) =
                      Len(inv[t].data) + (IF inv[t].tool = "list_memories" THEN 1 ELSE 0)
            /\ Cardinality(Mine(index)) <= LimitOf(inv[t].tool) =>
                  RenderedIds(t) = {p.id : p \in Mine(index)}

\* a record carrying only userId is rendered beside one carrying only
\* user_id
C4_Witness ==
    \E t \in Threads :
        /\ ReturnedBy(t, "search_memories")
        /\ \E i, j \in 1..Len(inv[t].data) :
              /\ DOMAIN inv[t].data[i].payload = {"userId", "data"}
              /\ DOMAIN inv[t].data[j].payload = {"user_id", "data"}

-----------------------------------------------------------------------------
(* Properties of add_memory, checked under SpecAdd *)

\* the list of outcome records of a response: under results, else under items
Outcomes_(data) ==
    IF \E i \in 1..Len(data.v) : data.v[i][1] = "results" THEN JGet(data, "results", JNull).v
    ELSE IF \E i \in 1..Len(data.v) : data.v[i][1] = "items" THEN JGet(data, "items", JNull).v
    ELSE <<>>

\* ADD, UPDATE, or no event given
KindStored(r) ==
    LET given == {i \in 1..Len(r.v) : r.v[i][1] = "event" /\ r.v[i][2] # JNull}
    IN given = {} \/ \E i \in given : r.v[i][2].v \in {"ADD", "UPDATE"}

\* the text an outcome stores: its memory field, else its text field
StoredText(r) ==
    LET at(k) == {i \in 1..Len(r.v) : r.v[i][1] = k}
    IN IF at("memory") # {} THEN r.v[CHOOSE i \in at("memory") : TRUE][2].v
       ELSE IF at("text") # {} THEN r.v[CHOOSE i \in at("text") : TRUE][2].v
       ELSE ""

C8_TruncationReached ==
    \E t \in Threads :
        /\ ReturnedBy(t, "add_memory")
        /\ inv[t].data # JNull
        /\ Len(JsonDumps(inv[t].data)) = 501
        /\ Len(inv[t].result) = Len("Memory processed. Response: ") + 500

-----------------------------------------------------------------------------
(* Properties of the graph tools, checked under SpecGraph *)

\* the name a row shows for a node: its name, else its id, else "?"
Shown(name, id) ==
    IF name # None /\ name # "" THEN name ELSE IF id # None /\ id # "" THEN id ELSE "?"

\* the relation of a row: the detail if the relationship has the property
RelIfPresent(rec) == IF rec.rel_detail # None THEN rec.rel_detail ELSE rec.relation

\* the relation of a row: the detail if the relationship has a non-empty one
RelIfNonEmpty(rec) ==
    IF rec.rel_detail # None /\ rec.rel_detail # "" THEN rec.rel_detail ELSE rec.relation

EdgeRows(records) == {i \in 1..Len(records) : records[i].relation # None}

Occurrences(lines, text) == Cardinality({i \in 1..Len(lines) : lines[i] = text})

\* the output of search_graph lists every distinct triple of the rows once,
\* every node of a row without relationship once, and nothing else, under a
\* header that counts the lines
DedupedBy(Rel(_), t) ==
    LET records == inv[t].data
        text == Split(inv[t].result, "\n")
        lines == Tail(text)
        triples == {<<Shown(records[i].source, records[i].source_id), Rel(records[i]),
                      Shown(records[i].target, records[i].target_id)>> : i \in EdgeRows(records)}
        lone == {Shown(records[i].source, records[i].source_id) :
                    i \in (1..Len(records)) \ EdgeRows(records)}
    IN /\ \A k \in triples : Occurrences(lines, GraphLine(k[1], k[2], k[3])) = 1
       /\ \A x \in lone : Occurrences(lines, LoneLine(x)) = 1
       /\ Len(lines) = Cardinality(triples) + Cardinality(lone)
       /\ text[1] = IntStr(Len(lines)) \o " graph results:"

\* C6 as stated: the relation of a triple is the relationship detail if
\* present, else the edge type.
C6_DedupIfPresent ==
    \A t \in Threads :
        ReturnedBy(t, "search_graph") /\ Len(inv[t].data) > 0 => DedupedBy(RelIfPresent, t)

\* C6, amended: for every list of rows, the output holds exactly one line per
\* distinct triple (source shown, relationship detail if present and not
\* empty else edge type, target shown) and exactly one "(no relationships)"
\* line per node shown by a row without relationship, and the header counts
\* these lines.
C6_Dedup ==
    \A t \in Threads :
        ReturnedBy(t, "search_graph") /\ Len(inv[t].data) > 0 => DedupedBy(RelIfNonEmpty, t)

\* two rows of the same triple and a row of a node without relationships
\* give two lines
C6_Witness ==
    \E t \in Threads :
        /\ ReturnedBy(t, "search_graph")
        /\ Len(inv[t].data) = 3
        /\ \E i, j \in 1..3 : i # j /\ inv[t].data[i] = inv[t].data[j]
                                /\ inv[t].data[i].relation # None
        /\ StartsWith(inv[t].result, "2 graph results:\n")
        /\ Contains(inv[t].result, "(no relationships)")

\* the nodes whose name or id equals the argument ignoring case
NamedOrIdentified(g, name) ==
    {n \in g.nodes :
        \/ "name" \in DOMAIN n.props /\ ToLower(n.props.name) = ToLower(name)
        \/ "id" \in DOMAIN n.props /\ ToLower(n.props.id) = ToLower(name)}

NotFoundText(name) == "Entity '" \o name \o "' not found in graph."

\* C7: get_entity returns the "not found" text exactly when no node has a
\* name or id equal to the argument ignoring case; otherwise it returns an
\* entity text, which holds "(no relationships)" exactly when the nodes it
\* reports have neither outgoing nor incoming relationships.
C7_EntityFound ==
    \A t \in Threads :
        ReturnedBy(t, "get_entity") =>
            LET found == NamedOrIdentified(graph, inv[t].arg)
                reported == {n \in found : Prop(n, "name") = inv[t].data[1].entity}
            IN /\ inv[t].result = NotFoundText(inv[t].arg) <=> found = {}
               /\ found # {} =>
                     /\ StartsWith(inv[t].result, "Entity: ")
                     /\ Contains(inv[t].result, "(no relationships)") <=>
                           \A n \in reported : OutEdges(graph, n) = {} /\ InEdges(graph, n) = {}


-----------------------------------------------------------------------------
(* Properties of the server, checked under Spec *)

GraphTools == {"search_graph", "get_entity"}

ReadTools == {"search_memories", "list_memories"} \cup GraphTools

Ended(t) == inv[t].pc \in {"returned", "raised"}

\* the requests of an invocation that went to the vector index
ToIndex(t) == {i \in 1..Len(inv[t].log) : inv[t].log[i].client = "qdrant_client"}

\* an HTTP-status failure of the delete through the write API
MediatedStatusFailure(t, i) ==
    /\ inv[t].tool = "delete_memory"
    /\ inv[t].log[i].client = "api_client"
    /\ inv[t].log[i].outcome = "status"

\* C1: a delete_memory sends a point delete to the vector index only after
\* its delete through the write API failed with an HTTP status, and once it
\* has ended it has sent one exactly in that case. Accepted by the write API
\* it returns "Deleted memory <id>" and sends nothing to the index; after a
\* status failure and a successful point delete it returns the text that
\* names the direct path.
C1_DeleteFallback ==
    \A t \in Threads :
        inv[t].tool = "delete_memory" /\ Len(inv[t].log) > 0 =>
            LET log == inv[t].log
            IN /\ log[1].client = "api_client" /\ log[1].method = "DELETE"
               /\ ToIndex(t) # {} =>
                     /\ log[1].outcome = "status"
                     /\ ToIndex(t) = {2}
                     /\ log[2].path = "/collections/openmemory/points/delete"
               /\ Ended(t) /\ log[1].outcome = "status" => ToIndex(t) # {}
               /\ log[1].outcome = "ok" =>
                     /\ inv[t].pc = "returned"
                     /\ inv[t].result = "Deleted memory " \o inv[t].arg
               /\ inv[t].pc = "returned" /\ log[1].outcome = "status" =>
                     /\ log[2].outcome = "ok"
                     /\ inv[t].result = "Deleted memory " \o inv[t].arg \o " (from Qdrant directly)"
                     /\ \A p \in index : p.id # inv[t].arg

\* the fallback removed a record the write API did not know
C1_Witness ==
    \E t \in Threads :
        /\ ReturnedBy(t, "delete_memory")
        /\ Len(inv[t].log) = 2
        /\ inv[t].log[1].outcome = "status"
        /\ EndsWith(inv[t].result, "(from Qdrant directly)")
        /\ index # StartIndex

\* C2: an invocation sends each collaborator at most one request; a request
\* that fails (no response, or a non-success status, except a status failure
\* of the delete through the write API) is the last one it sends, and the
\* invocation then ends with an exception and no result text.
C2_NoRetry ==
    \A t \in Threads :
        LET log == inv[t].log
        IN /\ \A i, j \in 1..Len(log) : i # j => log[i].client # log[j].client
           /\ \A i \in 1..Len(log) :
                 log[i].outcome # "ok" /\ ~MediatedStatusFailure(t, i) =>
                    /\ i = Len(log)
                    /\ inv[t].pc = "raised"
                    /\ inv[t].result = ""
           /\ inv[t].pc = "raised" => log # <<>> /\ log[Len(log)].outcome # "ok"

\* a search_memories whose embedding request got a non-success status ended
\* without a request to the vector index
C2_Witness ==
    \E t \in Threads :
        /\ inv[t].tool = "search_memories"
        /\ inv[t].pc = "raised"
        /\ Len(inv[t].log) = 1
        /\ inv[t].log[1].outcome = "status"
        /\ inv[t].log[1].path \in {"/api/embed", "/embeddings"}

\* what a request does to the collaborator that receives it
Effect(entry) ==
    IF entry.client = "api_client"
    THEN (IF entry.method = "DELETE" THEN "delete" ELSE "create")
    ELSE IF entry.client = "qdrant_client"
    THEN (IF EndsWith(entry.path, "/points/search") \/ EndsWith(entry.path, "/points/scroll")
          THEN "read"
          ELSE IF EndsWith(entry.path, "/points/delete") THEN "delete" ELSE "write")
    ELSE IF entry.client = "neo4j"
    THEN (IF \E w \in {"CREATE", "MERGE", "DELETE", "REMOVE", "SET "} : Contains(entry.path, w)
          THEN "write" ELSE "read")
    ELSE "read"

\* the requests an invocation has sent stay within what its tool may do
Framed(t) ==
    \A i \in 1..Len(inv[t].log) :
        LET entry == inv[t].log[i]
        IN /\ inv[t].tool = "add_memory" => entry.client = "api_client"
           /\ inv[t].tool \in ReadTools => Effect(entry) = "read"
           /\ entry.client = "neo4j" => Effect(entry) = "read"
           /\ entry.client = "qdrant_client" /\ Effect(entry) # "read" =>
                 /\ Effect(entry) = "delete"
                 /\ i = 2
                 /\ MediatedStatusFailure(t, 1)

\* the step is the answer to the point delete of a delete_memory
FallbackStep(t) ==
    /\ inv[t].pc = "points_delete"
    /\ inv'[t].log = Append(inv[t].log, inv'[t].log[Len(inv'[t].log)])
    /\ Effect(inv'[t].log[Len(inv'[t].log)]) = "delete"

\* C9: no step changes the graph database; a step changes the vector index
\* only as the fallback point delete of a delete_memory; add_memory sends
\* requests to the write API alone; search_memories, list_memories,
\* search_graph and get_entity send only requests that read; and no request
\* other than that point delete writes to the vector index or the graph.
C9_Frame ==
    [][ /\ graph' = graph
        /\ index' # index => \E t \in Threads : FallbackStep(t)
        /\ \A t \in Threads : Framed(t)' ]_vars

\* after a fallback removed a record, an add_memory has returned on the other
\* thread
C9_Witness ==
    /\ index # StartIndex
    /\ \E t \in Threads : ReturnedBy(t, "add_memory") /\ Len(inv[t].log) = 1

\* C10: at most one driver is ever constructed, only graph tools hold one,
\* and every invocation that holds a driver holds the one the global names.
C10_SingleDriver ==
    /\ ndrivers <= 1
    /\ ndrivers = 0 <=> neo4j_driver = 0
    /\ \A t \in Threads :
          /\ inv[t].tool \notin GraphTools => inv[t].driver = 0
          /\ inv[t].driver # 0 => inv[t].driver = neo4j_driver

====
